---- MODULE Spec2Model ----
(***************************************************************************)
(* Reciprocal mirroring between two agents: the base model                 *)
(* (models/python/reciprocal_mirror.py), the trust model                   *)
(* (models/python/reciprocal_mirror_trust.py) and the enhanced model       *)
(* (journal-submission/analysis/reciprocal_mirror_enhanced.py).            *)
(*                                                                         *)
(* Floats are fixed-point integers: a scalar or a vector component x is    *)
(* the integer x * SC.  Products and quotients round toward zero.  NaN is  *)
(* a value of its own: arithmetic propagates it and every comparison with  *)
(* it is false, as IEEE-754 and Python's min/max have it.  Vectors have D  *)
(* components.  numpy's global random stream is the variable rng, a        *)
(* linear congruential generator set by np.random.seed.  A system is       *)
(* stepped by a script that calls step itself, or by simulate, whose loop  *)
(* is followed in the variable sim.                                        *)
(***************************************************************************)
EXTENDS Integers, Sequences, FiniteSets, TLC

\* ------------------------------------------------------------------ bounds
MaxTime == 22
NumSeeds == 4
D == 3

\* ------------------------------------------------------ fixed-point floats
SC == 10 * 10 * 10
NaN == 0 - 99999999

Agents == {"a", "b"}

IsNaN(x) == x = NaN
Abs(x) == IF x < 0 THEN -x ELSE x
TruncDiv(a, b) == IF a >= 0 THEN a \div b ELSE -((-a) \div b)

FAdd(x, y) == IF IsNaN(x) \/ IsNaN(y) THEN NaN ELSE x + y
FSub(x, y) == IF IsNaN(x) \/ IsNaN(y) THEN NaN ELSE x - y
FMul(x, y) == IF IsNaN(x) \/ IsNaN(y) THEN NaN ELSE TruncDiv(x * y, SC)
FAbs(x) == IF IsNaN(x) THEN NaN ELSE Abs(x)
FLt(x, y) == ~IsNaN(x) /\ ~IsNaN(y) /\ x < y
FGt(x, y) == FLt(y, x)

\* Python's min(a, b) and max(a, b): b replaces a only when the comparison
\* is true, so a NaN second argument is dropped.
PyMin(a, b) == IF FLt(b, a) THEN b ELSE a
PyMax(a, b) == IF FGt(b, a) THEN b ELSE a

RECURSIVE SqrtSearch(_, _, _)
SqrtSearch(x, lo, hi) ==
    IF lo >= hi THEN lo
    ELSE LET mid == (lo + hi) \div 2
         IN IF mid * mid >= x THEN SqrtSearch(x, lo, mid)
            ELSE SqrtSearch(x, mid + 1, hi)
\* least n with n * n >= x
CeilSqrt(x) == SqrtSearch(x, 0, 46340)

\* ----------------------------------------------------------------- vectors
Idx == 1..D
NaNVec == [i \in Idx |-> NaN]
HasNaN(v) == \E i \in DOMAIN v : IsNaN(v[i])

RECURSIVE SumTo(_, _)
SumTo(v, n) == IF n = 0 THEN 0 ELSE v[n] + SumTo(v, n - 1)
Sum(v) == SumTo(v, Len(v))

RECURSIVE MaxAbsTo(_, _)
MaxAbsTo(v, n) ==
    IF n = 0 THEN 0
    ELSE LET m == MaxAbsTo(v, n - 1) IN IF Abs(v[n]) > m THEN Abs(v[n]) ELSE m

Prec == 10 * 10 * 10 * 10
\* v / np.linalg.norm(v) for a vector of any magnitude: the components are
\* first brought to magnitude Prec (by an integer factor or divisor), the
\* norm is rounded up and the quotient
\* toward zero, so the result never exceeds unit norm.  A zero vector gives
\* 0/0 = NaN in every component.
Unit(v) ==
    IF HasNaN(v) THEN NaNVec
    ELSE LET mx == MaxAbsTo(v, Len(v))
         IN IF mx = 0 THEN NaNVec
            ELSE LET c == IF mx > Prec
                          THEN [i \in Idx |-> TruncDiv(v[i], (mx + Prec - 1) \div Prec)]
                          ELSE [i \in Idx |-> v[i] * (Prec \div mx)]
                     n == CeilSqrt(Sum([i \in Idx |-> c[i] * c[i]]))
                 IN [i \in Idx |-> TruncDiv(c[i] * SC, n)]

\* np.linalg.norm(v) > 0
NormPositive(v) == ~HasNaN(v) /\ MaxAbsTo(v, Len(v)) > 0

\* np.dot(x, y)
Dot(x, y) ==
    IF HasNaN(x) \/ HasNaN(y) THEN NaN
    ELSE TruncDiv(Sum([i \in Idx |-> x[i] * y[i]]), SC)

\* np.corrcoef(x, y)[0,1]: Pearson correlation, clipped to [-1, 1]; a vector
\* of zero variance gives 0/0 = NaN.
Corrcoef(x, y) ==
    IF HasNaN(x) \/ HasNaN(y) THEN NaN
    ELSE LET n == Len(x)
             cx == [i \in 1..n |-> n * x[i] - Sum(x)]
             cy == [i \in 1..n |-> n * y[i] - Sum(y)]
             mx == MaxAbsTo(cx, n)
             my == MaxAbsTo(cy, n)
         IN IF mx = 0 \/ my = 0 THEN NaN
            ELSE LET ux == [i \in 1..n |-> TruncDiv(cx[i] * SC, mx)]
                     uy == [i \in 1..n |-> TruncDiv(cy[i] * SC, my)]
                     cov == Sum([i \in 1..n |-> ux[i] * uy[i]])
                     sx == CeilSqrt(Sum([i \in 1..n |-> ux[i] * ux[i]]))
                     sy == CeilSqrt(Sum([i \in 1..n |-> uy[i] * uy[i]]))
                     den == (sx * sy) \div SC
                     c == TruncDiv(cov, den)
                 IN IF c > SC THEN SC ELSE IF c < -SC THEN -SC ELSE c

\* ------------------------------------------------------ the random stream
RngMod == 2 * 1024
NextRng(r) == (r * 37 + 11) % RngMod
RECURSIVE Advance(_, _)
Advance(r, k) == IF k = 0 THEN r ELSE Advance(NextRng(r), k - 1)

\* One standard-normal draw, times 10, read off the high bits of the state.
Gauss == <<-16, -9, -4, -1, 1, 4, 9, 16>>
Draw(r) == Gauss[(NextRng(r) \div (RngMod \div 8)) + 1]
\* np.random.randn(D): D draws, starting from state r
Randn(r) == [i \in Idx |-> Draw(Advance(r, i - 1))]
\* np.random.seed(s)
SeedState(s) == (s * 97 + 5) % RngMod
Seeds == 0..(NumSeeds - 1)


\* ------------------------------------------------------------------- state
VARIABLES variant, agent, time, history, result, rng,
          energy_depletion_rate, grace_period, mirrors, sim, detector

\* mirrors[ag] is the vector the last call of agent ag's mirror returned;
\* sim is the frame of a running or finished call of simulate;
\* detector is the frame of a call of detect_changepoints on a given series.
vars == <<variant, agent, time, history, result, rng,
          energy_depletion_rate, grace_period, mirrors, sim, detector>>

\* componentwise vector arithmetic
VAdd(x, y) == IF HasNaN(x) \/ HasNaN(y) THEN NaNVec ELSE [i \in Idx |-> x[i] + y[i]]
VSub(x, y) == IF HasNaN(x) \/ HasNaN(y) THEN NaNVec ELSE [i \in Idx |-> x[i] - y[i]]
VScale(k, x) == IF IsNaN(k) \/ HasNaN(x) THEN NaNVec ELSE [i \in Idx |-> TruncDiv(k * x[i], SC)]

\* other_dims * mirror_quality + np.random.normal(0, sigma, size), then
\* "mirror *= openness * energy".  The result is kept at 100 times the
\* precision of a state vector; only its direction is used afterwards.
NoisyCopy(other_dims, mirror_quality, sigma, oe, r) ==
    IF HasNaN(other_dims) THEN NaNVec
    ELSE [i \in Idx |->
            TruncDiv((TruncDiv(other_dims[i] * mirror_quality, 10)
                      + sigma * Draw(Advance(r, i - 1)) * 10) * oe, SC)]

\* ---------------------------------------------------------- the base model
\* ConsciousnessState.__post_init__
PostInit(dimensions) == Unit(dimensions)

\* ReciprocMirrorAgent.mirror: the vector appended to mirror_history; the
\* vector returned is Unit of it
MirrorScaled(self, other_dims, current_understanding, r) ==
    LET mirror_quality == PyMin(SC, FAdd(current_understanding, 100))
        noise_level == FSub(SC, current_understanding)
    IN NoisyCopy(other_dims, mirror_quality, FMul(noise_level, 100),
                 FMul(self.openness, self.energy), r)

\* the elif chain tested in the wrong order
PhaseOfMisordered(u) ==
    IF FLt(u, 500) THEN 2
    ELSE IF FLt(u, 250) THEN 1
    ELSE IF FLt(u, 750) THEN 3
    ELSE 4

\* the phase assigned by update_understanding
PhaseOf(u) ==
    IF FLt(u, 250) THEN 1
    ELSE IF FLt(u, 500) THEN 2
    ELSE IF FLt(u, 750) THEN 3
    ELSE 4

\* delta = learning_rate * mirror_quality * complexity_factor
UnderstandingDelta(self, mirror_quality, other_complexity) ==
    LET complexity_factor == SC - Abs(self.complexity - other_complexity)
    IN FMul(FMul(self.learning_rate, mirror_quality), complexity_factor)

\* ReciprocMirrorAgent.update_understanding
UpdateUnderstanding(self, mirror_quality, other_complexity) ==
    LET u == PyMin(SC, FAdd(self.understanding_of_other,
                            UnderstandingDelta(self, mirror_quality, other_complexity)))
    IN [self EXCEPT !.understanding_of_other = u, !.phase = PhaseOf(u)]

ConvergenceStrength(self) ==
    FMul(FMul(FMul(self.convergence_rate, self.understanding_of_other),
              self.openness), self.energy)

\* ReciprocMirrorAgent.converge_state
ConvergeState(self, other_dims) ==
    LET state_diff == VSub(other_dims, self.dimensions)
        moved == VAdd(self.dimensions, VScale(ConvergenceStrength(self), state_diff))
    IN [self EXCEPT !.dimensions = Unit(moved)]

\* energy depletion without the floor
EnergyDecayNoFloor(energy, rate) == FSub(energy, rate)

\* energy depletion with the sign of the rate flipped
EnergyDecayAdds(energy, rate) == PyMax(100, FAdd(energy, rate))

\* the energy-depletion assignment of step
EnergyDecay(energy, rate) == PyMax(100, FSub(energy, rate))

\* make_choice without the grace-period test
MakeChoiceNoGrace(self, time_step, grace) ==
    IF FLt(self.understanding_of_other, self.threshold) THEN FALSE
    ELSE IF self.phase >= 3 /\ FLt(self.energy, 200) THEN FALSE
    ELSE TRUE

\* make_choice with the grace period one step too long
MakeChoiceLateGrace(self, time_step, grace) ==
    IF time_step <= grace THEN TRUE
    ELSE IF FLt(self.understanding_of_other, self.threshold) THEN FALSE
    ELSE IF self.phase >= 3 /\ FLt(self.energy, 200) THEN FALSE
    ELSE TRUE

\* make_choice without the late-phase energy test
MakeChoiceNoEnergy(self, time_step, grace) ==
    IF time_step < grace THEN TRUE
    ELSE IF FLt(self.understanding_of_other, self.threshold) THEN FALSE
    ELSE TRUE

\* ReciprocMirrorAgent.make_choice
MakeChoice(self, time_step, grace) ==
    IF time_step < grace THEN TRUE
    ELSE IF FLt(self.understanding_of_other, self.threshold) THEN FALSE
    ELSE IF self.phase >= 3 /\ FLt(self.energy, 200) THEN FALSE
    ELSE TRUE

\* ReciprocMirrorSystem.calculate_state_alignment
StateAlignment(ags) == FAbs(Dot(ags["a"].dimensions, ags["b"].dimensions))

\* ReciprocMirrorSystem.calculate_shared_space
SharedSpace(ags) ==
    FMul(StateAlignment(ags),
         PyMin(ags["a"].understanding_of_other, ags["b"].understanding_of_other))

BaseKeys == {"understanding_a_b", "understanding_b_a", "shared_space",
             "state_alignment", "phase_a", "phase_b", "energy_a", "energy_b"}

\* ReciprocMirrorAgent.__init__
NewAgent(dims, complexity, openness, energy, threshold, learning_rate, convergence_rate) ==
    [dimensions |-> PostInit(dims), complexity |-> complexity, openness |-> openness,
     energy |-> energy, threshold |-> threshold, learning_rate |-> learning_rate,
     convergence_rate |-> convergence_rate, understanding_of_other |-> 0,
     phase |-> 1, mirror_history |-> <<>>]

\* the flag returned when either agent's decision is enough to go on
ContinueFlagEither(continue_a, continue_b) == continue_a \/ continue_b

\* 'continue': continue_a and continue_b
ContinueFlag(continue_a, continue_b) == continue_a /\ continue_b

\* ReciprocMirrorSystem.step
\* the history update with the state_alignment append left out
RecordBaseSkips(h, a, b, shared_space, state_alignment) ==
    [h EXCEPT
        !.understanding_a_b = Append(@, a.understanding_of_other),
        !.understanding_b_a = Append(@, b.understanding_of_other),
        !.shared_space = Append(@, shared_space),
        !.phase_a = Append(@, a.phase),
        !.phase_b = Append(@, b.phase),
        !.energy_a = Append(@, a.energy),
        !.energy_b = Append(@, b.energy)]

\* "Update history" of ReciprocMirrorSystem.step
RecordBase(h, a, b, shared_space, state_alignment) ==
    [h EXCEPT
        !.understanding_a_b = Append(@, a.understanding_of_other),
        !.understanding_b_a = Append(@, b.understanding_of_other),
        !.shared_space = Append(@, shared_space),
        !.state_alignment = Append(@, state_alignment),
        !.phase_a = Append(@, a.phase),
        !.phase_b = Append(@, b.phase),
        !.energy_a = Append(@, a.energy),
        !.energy_b = Append(@, b.energy)]

\* step with agent b mirroring agent a only after a has updated its
\* understanding and converged
StepBaseMirrorsInTurn ==
    /\ variant = "base"
    /\ time < MaxTime
    /\ \E a0 \in {agent["a"]} :
       \E b0 \in {agent["b"]} :
       \E scaled_a \in {MirrorScaled(a0, b0.dimensions, a0.understanding_of_other, rng)} :
       \E scaled_b \in {MirrorScaled(b0,
                            ConvergeState(UpdateUnderstanding(a0,
                                Corrcoef(Unit(scaled_a), b0.dimensions),
                                b0.complexity), b0.dimensions).dimensions,
                            b0.understanding_of_other, Advance(rng, D))} :
       \E mirror_a_to_b \in {Unit(scaled_a)} :
       \E mirror_b_to_a \in {Unit(scaled_b)} :
       \E quality_a \in {Corrcoef(mirror_a_to_b, b0.dimensions)} :
       \E quality_b \in {Corrcoef(mirror_b_to_a, a0.dimensions)} :
       \E a1 \in {UpdateUnderstanding(
                    [a0 EXCEPT !.mirror_history = Append(@, scaled_a)],
                    quality_a, b0.complexity)} :
       \E b1 \in {UpdateUnderstanding(
                    [b0 EXCEPT !.mirror_history = Append(@, scaled_b)],
                    quality_b, a0.complexity)} :
       \E a2 \in {ConvergeState(a1, b1.dimensions)} :
       \E b2 \in {ConvergeState(b1, a2.dimensions)} :
       \E a3 \in {[a2 EXCEPT !.energy = EnergyDecay(@, energy_depletion_rate)]} :
       \E b3 \in {[b2 EXCEPT !.energy = EnergyDecay(@, energy_depletion_rate)]} :
       \E ags \in {[ag \in Agents |-> IF ag = "a" THEN a3 ELSE b3]} :
       \E state_alignment \in {StateAlignment(ags)} :
       \E shared_space \in {SharedSpace(ags)} :
       \E t1 \in {time + 1} :
       /\ agent' = ags
       /\ mirrors' = [ag \in Agents |-> IF ag = "a" THEN mirror_a_to_b ELSE mirror_b_to_a]
       /\ rng' = Advance(rng, 2 * D)
       /\ history' = RecordBase(history, a3, b3, shared_space, state_alignment)
       /\ time' = t1
       /\ result' = [time |-> t1,
                     understanding_a_b |-> a3.understanding_of_other,
                     understanding_b_a |-> b3.understanding_of_other,
                     state_alignment |-> state_alignment,
                     shared_space |-> shared_space,
                     phase_a |-> a3.phase,
                     phase_b |-> b3.phase,
                     continue |-> ContinueFlag(MakeChoice(a3, t1, grace_period),
                                               MakeChoice(b3, t1, grace_period))]
    /\ UNCHANGED <<variant, energy_depletion_rate, grace_period>>

\* step with the energy depletion ahead of the convergence
StepBaseDecaysFirst ==
    /\ variant = "base"
    /\ time < MaxTime
    /\ \E a0 \in {agent["a"]} :
       \E b0 \in {agent["b"]} :
       \E scaled_a \in {MirrorScaled(a0, b0.dimensions, a0.understanding_of_other, rng)} :
       \E scaled_b \in {MirrorScaled(b0, a0.dimensions, b0.understanding_of_other,
                                    Advance(rng, D))} :
       \E mirror_a_to_b \in {Unit(scaled_a)} :
       \E mirror_b_to_a \in {Unit(scaled_b)} :
       \E quality_a \in {Corrcoef(mirror_a_to_b, b0.dimensions)} :
       \E quality_b \in {Corrcoef(mirror_b_to_a, a0.dimensions)} :
       \E a1 \in {UpdateUnderstanding(
                    [a0 EXCEPT !.mirror_history = Append(@, scaled_a)],
                    quality_a, b0.complexity)} :
       \E b1 \in {UpdateUnderstanding(
                    [b0 EXCEPT !.mirror_history = Append(@, scaled_b)],
                    quality_b, a0.complexity)} :
       \E a2 \in {[a1 EXCEPT !.energy = EnergyDecay(@, energy_depletion_rate)]} :
       \E b2 \in {[b1 EXCEPT !.energy = EnergyDecay(@, energy_depletion_rate)]} :
       \E a3 \in {ConvergeState(a2, b2.dimensions)} :
       \E b3 \in {ConvergeState(b2, a3.dimensions)} :
       \E ags \in {[ag \in Agents |-> IF ag = "a" THEN a3 ELSE b3]} :
       \E state_alignment \in {StateAlignment(ags)} :
       \E shared_space \in {SharedSpace(ags)} :
       \E t1 \in {time + 1} :
       /\ agent' = ags
       /\ mirrors' = [ag \in Agents |-> IF ag = "a" THEN mirror_a_to_b ELSE mirror_b_to_a]
       /\ rng' = Advance(rng, 2 * D)
       /\ history' = RecordBase(history, a3, b3, shared_space, state_alignment)
       /\ time' = t1
       /\ result' = [time |-> t1,
                     understanding_a_b |-> a3.understanding_of_other,
                     understanding_b_a |-> b3.understanding_of_other,
                     state_alignment |-> state_alignment,
                     shared_space |-> shared_space,
                     phase_a |-> a3.phase,
                     phase_b |-> b3.phase,
                     continue |-> ContinueFlag(MakeChoice(a3, t1, grace_period),
                                               MakeChoice(b3, t1, grace_period))]
    /\ UNCHANGED <<variant, energy_depletion_rate, grace_period>>

\* the step with the roles swapped in "Update states through convergence":
\* agent b converges first
StepBaseBFirst ==
    /\ variant = "base"
    /\ time < MaxTime
    /\ \E a0 \in {agent["a"]} :
       \E b0 \in {agent["b"]} :
       \E scaled_a \in {MirrorScaled(a0, b0.dimensions, a0.understanding_of_other, rng)} :
       \E scaled_b \in {MirrorScaled(b0, a0.dimensions, b0.understanding_of_other,
                                    Advance(rng, D))} :
       \E mirror_a_to_b \in {Unit(scaled_a)} :
       \E mirror_b_to_a \in {Unit(scaled_b)} :
       \E quality_a \in {Corrcoef(mirror_a_to_b, b0.dimensions)} :
       \E quality_b \in {Corrcoef(mirror_b_to_a, a0.dimensions)} :
       \E a1 \in {UpdateUnderstanding(
                    [a0 EXCEPT !.mirror_history = Append(@, scaled_a)],
                    quality_a, b0.complexity)} :
       \E b1 \in {UpdateUnderstanding(
                    [b0 EXCEPT !.mirror_history = Append(@, scaled_b)],
                    quality_b, a0.complexity)} :
       \E b2 \in {ConvergeState(b1, a1.dimensions)} :
       \E a2 \in {ConvergeState(a1, b2.dimensions)} :
       \E a3 \in {[a2 EXCEPT !.energy = EnergyDecay(@, energy_depletion_rate)]} :
       \E b3 \in {[b2 EXCEPT !.energy = EnergyDecay(@, energy_depletion_rate)]} :
       \E ags \in {[ag \in Agents |-> IF ag = "a" THEN a3 ELSE b3]} :
       \E state_alignment \in {StateAlignment(ags)} :
       \E shared_space \in {SharedSpace(ags)} :
       \E t1 \in {time + 1} :
       /\ agent' = ags
       /\ mirrors' = [ag \in Agents |-> IF ag = "a" THEN mirror_a_to_b ELSE mirror_b_to_a]
       /\ rng' = Advance(rng, 2 * D)
       /\ history' = RecordBase(history, a3, b3, shared_space, state_alignment)
       /\ time' = t1
       /\ result' = [time |-> t1,
                     understanding_a_b |-> a3.understanding_of_other,
                     understanding_b_a |-> b3.understanding_of_other,
                     state_alignment |-> state_alignment,
                     shared_space |-> shared_space,
                     phase_a |-> a3.phase,
                     phase_b |-> b3.phase,
                     continue |-> ContinueFlag(MakeChoice(a3, t1, grace_period),
                                               MakeChoice(b3, t1, grace_period))]
    /\ UNCHANGED <<variant, energy_depletion_rate, grace_period>>

\* A singleton \E binds a name to a value computed once, in the order of the
\* statements of step.
StepBase ==
    /\ variant = "base"
    /\ time < MaxTime
    /\ \E a0 \in {agent["a"]} :
       \E b0 \in {agent["b"]} :
       \E scaled_a \in {MirrorScaled(a0, b0.dimensions, a0.understanding_of_other, rng)} :
       \E scaled_b \in {MirrorScaled(b0, a0.dimensions, b0.understanding_of_other,
                                    Advance(rng, D))} :
       \E mirror_a_to_b \in {Unit(scaled_a)} :
       \E mirror_b_to_a \in {Unit(scaled_b)} :
       \E quality_a \in {Corrcoef(mirror_a_to_b, b0.dimensions)} :
       \E quality_b \in {Corrcoef(mirror_b_to_a, a0.dimensions)} :
       \E a1 \in {UpdateUnderstanding(
                    [a0 EXCEPT !.mirror_history = Append(@, scaled_a)],
                    quality_a, b0.complexity)} :
       \E b1 \in {UpdateUnderstanding(
                    [b0 EXCEPT !.mirror_history = Append(@, scaled_b)],
                    quality_b, a0.complexity)} :
       \E a2 \in {ConvergeState(a1, b1.dimensions)} :
       \E b2 \in {ConvergeState(b1, a2.dimensions)} :
       \E a3 \in {[a2 EXCEPT !.energy = EnergyDecay(@, energy_depletion_rate)]} :
       \E b3 \in {[b2 EXCEPT !.energy = EnergyDecay(@, energy_depletion_rate)]} :
       \E ags \in {[ag \in Agents |-> IF ag = "a" THEN a3 ELSE b3]} :
       \E state_alignment \in {StateAlignment(ags)} :
       \E shared_space \in {SharedSpace(ags)} :
       \E t1 \in {time + 1} :
       /\ agent' = ags
       /\ mirrors' = [ag \in Agents |-> IF ag = "a" THEN mirror_a_to_b ELSE mirror_b_to_a]
       /\ rng' = Advance(rng, 2 * D)
       /\ history' = RecordBase(history, a3, b3, shared_space, state_alignment)
       /\ time' = t1
       /\ result' = [time |-> t1,
                     understanding_a_b |-> a3.understanding_of_other,
                     understanding_b_a |-> b3.understanding_of_other,
                     state_alignment |-> state_alignment,
                     shared_space |-> shared_space,
                     phase_a |-> a3.phase,
                     phase_b |-> b3.phase,
                     continue |-> ContinueFlag(MakeChoice(a3, t1, grace_period),
                                               MakeChoice(b3, t1, grace_period))]
    /\ UNCHANGED <<variant, energy_depletion_rate, grace_period>>

\* --------------------------------------------------------- the trust model
\* least n with n * n <= x < (n + 1) * (n + 1)
FloorSqrt(x) == CeilSqrt(x + 1) - 1
\* np.sqrt
FSqrt(x) == IF IsNaN(x) \/ x < 0 THEN NaN ELSE FloorSqrt(x * SC)
\* np.mean of a non-empty list
FMean(xs) == IF HasNaN(xs) THEN NaN ELSE TruncDiv(Sum(xs), Len(xs))
\* np.clip
Clip(x, lo, hi) == IF IsNaN(x) THEN NaN ELSE IF x < lo THEN lo ELSE IF x > hi THEN hi ELSE x

\* ReciprocMirrorAgent.__init__ (trust)
NewTrustAgent(dims, complexity, openness, energy, threshold, learning_rate, convergence_rate, initial_trust, memory_window) ==
    [dimensions |-> PostInit(dims), complexity |-> complexity, openness |-> openness,
     energy |-> energy, base_openness |-> openness, base_convergence |-> convergence_rate,
     threshold |-> threshold, learning_rate |-> learning_rate,
     convergence_rate |-> convergence_rate, understanding_of_other |-> 0,
     phase |-> 1, mirror_history |-> <<>>,
     trust |-> initial_trust, trust_history |-> <<initial_trust>>,
     interaction_memory |-> <<>>, memory_window |-> memory_window,
     betrayals |-> 0, successes |-> 0]

\* ReciprocMirrorAgent.mirror (trust): the vector appended to mirror_history
TrustMirrorScaled(self, other_dims, current_understanding, r) ==
    LET trust_modified_quality ==
            PyMin(SC, FAdd(current_understanding, FMul(100, self.trust)))
        noise_level == FMul(FSub(SC, current_understanding), FSub(2 * SC, self.trust))
    IN NoisyCopy(other_dims, trust_modified_quality, FMul(noise_level, 100),
                 FMul(self.openness, self.energy), r)

\* append to a deque that has no maxlen
DequeAppendUnbounded(q, x, n) == Append(q, x)

\* deque(maxlen = n).append
DequeAppend(q, x, n) ==
    LET full == Append(q, x)
    IN IF Len(full) > n THEN SubSeq(full, Len(full) - n + 1, Len(full)) ELSE full

\* the last three records of the interaction memory
Recent(mem) == SubSeq(mem, Len(mem) - 2, Len(mem))

\* the branch taken when the averages run over the whole memory
TrustCaseWholeMemory(mem, mirror_quality) ==
    IF Len(mem) >= 3
    THEN LET avg_quality == FMean([i \in 1..Len(mem) |-> mem[i].quality])
             avg_space == FMean([i \in 1..Len(mem) |-> mem[i].shared_space])
         IN IF FGt(avg_quality, 600) /\ FGt(avg_space, 400) THEN "success"
            ELSE IF FLt(avg_quality, 300) \/ FLt(avg_space, 200) THEN "betrayal"
            ELSE "drift"
    ELSE "early"

\* the branch of update_trust taken: "success", "betrayal", "drift" or "early"
TrustCase(mem, mirror_quality) ==
    IF Len(mem) >= 3
    THEN LET avg_quality == FMean([i \in 1..3 |-> Recent(mem)[i].quality])
             avg_space == FMean([i \in 1..3 |-> Recent(mem)[i].shared_space])
         IN IF FGt(avg_quality, 600) /\ FGt(avg_space, 400) THEN "success"
            ELSE IF FLt(avg_quality, 300) \/ FLt(avg_space, 200) THEN "betrayal"
            ELSE "drift"
    ELSE "early"

\* trust_delta with the phase amplification applied to the early rule too
TrustDeltaAmplifiesEarly(case, phase, mirror_quality) ==
    LET d == IF case = "early" THEN (IF FGt(mirror_quality, 500) THEN 20 ELSE -50)
             ELSE IF case = "success" THEN 50
             ELSE IF case = "betrayal" THEN -100 ELSE 10
    IN IF phase >= 3 THEN TruncDiv(d * 15, 10) ELSE d

\* trust_delta of update_trust
TrustDelta(case, phase, mirror_quality) ==
    IF case = "early" THEN (IF FGt(mirror_quality, 500) THEN 20 ELSE -50)
    ELSE LET d == IF case = "success" THEN 50
                  ELSE IF case = "betrayal" THEN -100 ELSE 10
         IN IF phase >= 3 THEN TruncDiv(d * 15, 10) ELSE d

\* trust stored without clipping
ClipTrustNone(t) == t

\* "self.trust = np.clip(self.trust + trust_delta, 0.1, 1.0)"
ClipTrust(t) == Clip(t, 100, 1000)

\* update_trust modulating the current openness and convergence_rate
\* instead of the base values
UpdateTrustCompounds(self, mirror_quality, shared_space, time_step) ==
    LET mem == DequeAppend(self.interaction_memory,
                           [quality |-> mirror_quality, shared_space |-> shared_space,
                            time |-> time_step, phase |-> self.phase],
                           self.memory_window)
        case == TrustCase(mem, mirror_quality)
        t == ClipTrust(FAdd(self.trust, TrustDelta(case, self.phase, mirror_quality)))
    IN [self EXCEPT
          !.interaction_memory = mem,
          !.successes = IF case = "success" THEN @ + 1 ELSE @,
          !.betrayals = IF case = "betrayal" THEN @ + 1 ELSE @,
          !.trust = t,
          !.trust_history = Append(@, t),
          !.openness = FMul(self.openness, 300 + FMul(700, t)),
          !.convergence_rate = FMul(self.convergence_rate, 500 + FMul(500, t))]

\* ReciprocMirrorAgent.update_trust
UpdateTrust(self, mirror_quality, shared_space, time_step) ==
    LET mem == DequeAppend(self.interaction_memory,
                           [quality |-> mirror_quality, shared_space |-> shared_space,
                            time |-> time_step, phase |-> self.phase],
                           self.memory_window)
        case == TrustCase(mem, mirror_quality)
        t == ClipTrust(FAdd(self.trust, TrustDelta(case, self.phase, mirror_quality)))
    IN [self EXCEPT
          !.interaction_memory = mem,
          !.successes = IF case = "success" THEN @ + 1 ELSE @,
          !.betrayals = IF case = "betrayal" THEN @ + 1 ELSE @,
          !.trust = t,
          !.trust_history = Append(@, t),
          !.openness = FMul(self.base_openness, 300 + FMul(700, t)),
          !.convergence_rate = FMul(self.base_convergence, 500 + FMul(500, t))]

\* ReciprocMirrorAgent.make_choice (trust)
TrustMakeChoice(self, time_step, grace) ==
    IF time_step < grace THEN TRUE
    ELSE IF FLt(self.understanding_of_other,
                FMul(self.threshold, FSub(2 * SC, self.trust))) THEN FALSE
    ELSE IF self.betrayals > 5 /\ FLt(self.trust, 300) THEN FALSE
    ELSE IF FGt(self.trust, 800) /\ FGt(self.understanding_of_other, 200) THEN TRUE
    ELSE IF self.phase >= 3 /\ FLt(self.energy, 200) THEN FALSE
    ELSE TRUE

\* ReciprocMirrorSystem.calculate_shared_space (trust)
TrustSharedSpace(ags) ==
    FMul(FMul(StateAlignment(ags),
              PyMin(ags["a"].understanding_of_other, ags["b"].understanding_of_other)),
         FSqrt(FMul(ags["a"].trust, ags["b"].trust)))

TrustKeys == BaseKeys \cup {"trust_a", "trust_b", "trust_divergence", "trust_product"}

\* "Update history" of ReciprocMirrorSystem.step (trust)
RecordTrust(h, a, b, shared_space, state_alignment) ==
    [h EXCEPT
        !.understanding_a_b = Append(@, a.understanding_of_other),
        !.understanding_b_a = Append(@, b.understanding_of_other),
        !.shared_space = Append(@, shared_space),
        !.state_alignment = Append(@, state_alignment),
        !.phase_a = Append(@, a.phase),
        !.phase_b = Append(@, b.phase),
        !.energy_a = Append(@, a.energy),
        !.energy_b = Append(@, b.energy),
        !.trust_a = Append(@, a.trust),
        !.trust_b = Append(@, b.trust),
        !.trust_divergence = Append(@, FAbs(FSub(a.trust, b.trust))),
        !.trust_product = Append(@, FMul(a.trust, b.trust))]

\* step with the understanding updates ahead of the shared-space
\* calculation and the trust updates
StepTrustUnderstandingFirst ==
    /\ variant = "trust"
    /\ time < MaxTime
    /\ \E a0 \in {agent["a"]} :
       \E b0 \in {agent["b"]} :
       \E scaled_a \in {TrustMirrorScaled(a0, b0.dimensions, a0.understanding_of_other, rng)} :
       \E scaled_b \in {TrustMirrorScaled(b0, a0.dimensions, b0.understanding_of_other,
                                          Advance(rng, D))} :
       \E mirror_a_to_b \in {Unit(scaled_a)} :
       \E mirror_b_to_a \in {Unit(scaled_b)} :
       \E quality_a \in {Corrcoef(mirror_a_to_b, b0.dimensions)} :
       \E quality_b \in {Corrcoef(mirror_b_to_a, a0.dimensions)} :
       \E au \in {UpdateUnderstanding(
                    [a0 EXCEPT !.mirror_history = Append(@, scaled_a)],
                    quality_a, b0.complexity)} :
       \E bu \in {UpdateUnderstanding(
                    [b0 EXCEPT !.mirror_history = Append(@, scaled_b)],
                    quality_b, a0.complexity)} :
       \E space0 \in {TrustSharedSpace([ag \in Agents |-> IF ag = "a" THEN au ELSE bu])} :
       \E a1 \in {UpdateTrust(au, quality_a, space0, time)} :
       \E b1 \in {UpdateTrust(bu, quality_b, space0, time)} :
       \E a2 \in {ConvergeState(a1, b1.dimensions)} :
       \E b2 \in {ConvergeState(b1, a2.dimensions)} :
       \E a3 \in {[a2 EXCEPT !.energy = EnergyDecay(@, energy_depletion_rate)]} :
       \E b3 \in {[b2 EXCEPT !.energy = EnergyDecay(@, energy_depletion_rate)]} :
       \E ags \in {[ag \in Agents |-> IF ag = "a" THEN a3 ELSE b3]} :
       \E state_alignment \in {StateAlignment(ags)} :
       \E shared_space \in {TrustSharedSpace(ags)} :
       \E t1 \in {time + 1} :
       /\ agent' = ags
       /\ mirrors' = [ag \in Agents |-> IF ag = "a" THEN mirror_a_to_b ELSE mirror_b_to_a]
       /\ rng' = Advance(rng, 2 * D)
       /\ history' = RecordTrust(history, a3, b3, shared_space, state_alignment)
       /\ time' = t1
       /\ result' = [time |-> t1,
                     understanding_a_b |-> a3.understanding_of_other,
                     understanding_b_a |-> b3.understanding_of_other,
                     state_alignment |-> state_alignment,
                     shared_space |-> shared_space,
                     trust_a |-> a3.trust,
                     trust_b |-> b3.trust,
                     phase_a |-> a3.phase,
                     phase_b |-> b3.phase,
                     continue |-> ContinueFlag(TrustMakeChoice(a3, t1, grace_period),
                                               TrustMakeChoice(b3, t1, grace_period))]
    /\ UNCHANGED <<variant, energy_depletion_rate, grace_period>>

\* ReciprocMirrorSystem.step (trust)
StepTrust ==
    /\ variant = "trust"
    /\ time < MaxTime
    /\ \E a0 \in {agent["a"]} :
       \E b0 \in {agent["b"]} :
       \E scaled_a \in {TrustMirrorScaled(a0, b0.dimensions, a0.understanding_of_other, rng)} :
       \E scaled_b \in {TrustMirrorScaled(b0, a0.dimensions, b0.understanding_of_other,
                                          Advance(rng, D))} :
       \E mirror_a_to_b \in {Unit(scaled_a)} :
       \E mirror_b_to_a \in {Unit(scaled_b)} :
       \E quality_a \in {Corrcoef(mirror_a_to_b, b0.dimensions)} :
       \E quality_b \in {Corrcoef(mirror_b_to_a, a0.dimensions)} :
       \E space0 \in {TrustSharedSpace(agent)} :
       \E at \in {UpdateTrust([a0 EXCEPT !.mirror_history = Append(@, scaled_a)],
                              quality_a, space0, time)} :
       \E bt \in {UpdateTrust([b0 EXCEPT !.mirror_history = Append(@, scaled_b)],
                              quality_b, space0, time)} :
       \E a1 \in {UpdateUnderstanding(at, quality_a, bt.complexity)} :
       \E b1 \in {UpdateUnderstanding(bt, quality_b, a1.complexity)} :
       \E a2 \in {ConvergeState(a1, b1.dimensions)} :
       \E b2 \in {ConvergeState(b1, a2.dimensions)} :
       \E a3 \in {[a2 EXCEPT !.energy = EnergyDecay(@, energy_depletion_rate)]} :
       \E b3 \in {[b2 EXCEPT !.energy = EnergyDecay(@, energy_depletion_rate)]} :
       \E ags \in {[ag \in Agents |-> IF ag = "a" THEN a3 ELSE b3]} :
       \E state_alignment \in {StateAlignment(ags)} :
       \E shared_space \in {TrustSharedSpace(ags)} :
       \E t1 \in {time + 1} :
       /\ agent' = ags
       /\ mirrors' = [ag \in Agents |-> IF ag = "a" THEN mirror_a_to_b ELSE mirror_b_to_a]
       /\ rng' = Advance(rng, 2 * D)
       /\ history' = RecordTrust(history, a3, b3, shared_space, state_alignment)
       /\ time' = t1
       /\ result' = [time |-> t1,
                     understanding_a_b |-> a3.understanding_of_other,
                     understanding_b_a |-> b3.understanding_of_other,
                     state_alignment |-> state_alignment,
                     shared_space |-> shared_space,
                     trust_a |-> a3.trust,
                     trust_b |-> b3.trust,
                     phase_a |-> a3.phase,
                     phase_b |-> b3.phase,
                     continue |-> ContinueFlag(TrustMakeChoice(a3, t1, grace_period),
                                               TrustMakeChoice(b3, t1, grace_period))]
    /\ UNCHANGED <<variant, energy_depletion_rate, grace_period>>

\* ------------------------------------------------------ the enhanced model
\* np.concatenate([x, y])
Concat(x, y) == [i \in 1..(Len(x) + Len(y)) |-> IF i <= Len(x) THEN x[i] ELSE y[i - Len(x)]]

\* xs[-n:]
LastN(xs, n) == IF Len(xs) <= n THEN xs ELSE SubSeq(xs, Len(xs) - n + 1, Len(xs))

\* np.var: the mean of the squared deviations from the mean
Var(x) ==
    IF HasNaN(x) THEN NaN
    ELSE LET n == Len(x)
             s == Sum(x)
         IN TruncDiv(Sum([i \in 1..n |-> (n * x[i] - s) * (n * x[i] - s)]), n * n * n * SC)

\* np.std
Std(x) ==
    IF HasNaN(x) THEN NaN
    ELSE LET n == Len(x)
             m == TruncDiv(Sum(x), n)
         IN FloorSqrt(Sum([i \in 1..n |-> (x[i] - m) * (x[i] - m)]) \div n)

\* np.ones_like(mirror) / np.sqrt(len(mirror))
Uniform == [i \in Idx |-> TruncDiv(SC * SC, CeilSqrt(D * SC * SC))]

\* ConsciousnessState.update: the new value of dimensions
StateUpdate(new_dimensions) == Unit(new_dimensions)

\* EnhancedReciprocMirrorAgent.__init__ with ConsciousnessState.__post_init__
NewEnhancedAgent(dims, complexity, openness, energy, threshold, learning_rate, convergence_rate, noise_level) ==
    [dimensions |-> PostInit(dims), complexity |-> complexity, openness |-> openness,
     energy |-> energy, state_history |-> <<PostInit(dims)>>,
     threshold |-> threshold, learning_rate |-> learning_rate,
     convergence_rate |-> convergence_rate, noise_level |-> noise_level,
     understanding_of_other |-> 0, phase |-> 1, mirror_history |-> <<>>]

\* EnhancedReciprocMirrorAgent.mirror
EnhancedMirror(self, other_dims, r) ==
    LET mirror_quality == PyMin(SC, FAdd(self.understanding_of_other, 100))
        mirror == NoisyCopy(other_dims, mirror_quality, self.noise_level,
                            FMul(self.openness, self.energy), r)
    IN IF NormPositive(mirror) THEN Unit(mirror) ELSE Uniform

\* EnhancedReciprocMirrorAgent.update_understanding
EnhancedUpdateUnderstanding(self, mirror_quality) ==
    LET delta == FMul(FMul(self.learning_rate, mirror_quality), self.openness)
        u == PyMin(SC, FAdd(self.understanding_of_other, delta))
    IN [self EXCEPT !.understanding_of_other = u, !.phase = PhaseOf(u)]

\* InformationMetrics.transfer_entropy
TransferEntropy(source, target) ==
    IF Len(source) < 3 \/ Len(target) < 3 THEN 0
    ELSE LET m == IF Len(source) < Len(target) THEN Len(source) - 1 ELSE Len(target) - 1
         IN FMean([i \in 1..m |-> FAbs(Corrcoef(source[i], target[i + 1]))])

\* InformationMetrics.integrated_information
IntegratedInformation(states) ==
    IF Len(states) < 2 THEN 0
    ELSE LET latest_state == states[Len(states)]
             mid == Len(latest_state) \div 2
             system_var == Var(latest_state)
             part1_var == Var(SubSeq(latest_state, 1, mid))
             part2_var == Var(SubSeq(latest_state, mid + 1, Len(latest_state)))
             parts == FAdd(part1_var, part2_var)
         IN PyMax(0, FSub(system_var, IF IsNaN(parts) THEN NaN ELSE TruncDiv(parts, 2)))

\* PhaseTransitionDetector.calculate_order_parameter
OrderParameter(agent_a_state, agent_b_state) ==
    LET correlation == Corrcoef(agent_a_state, agent_b_state)
    IN IF IsNaN(correlation) THEN NaN ELSE TruncDiv(correlation + SC, 2)

\* the wrong scan: keeps every index whose means differ enough
RECURSIVE ScanKeepsAll(_, _, _, _, _)
ScanKeepsAll(signal_data, limit, i, changepoints, n) ==
    IF i >= n - 10 THEN changepoints
    ELSE LET before_mean == FMean(SubSeq(signal_data, i - 9, i))
             after_mean == FMean(SubSeq(signal_data, i + 1, i + 10))
             hit == FGt(FAbs(FSub(after_mean, before_mean)), limit)
         IN ScanKeepsAll(signal_data, limit, i + 1,
                         IF hit THEN Append(changepoints, i) ELSE changepoints, n)

\* the loop of detect_changepoints from (0-based) index i on, window 10
RECURSIVE ScanChangepoints(_, _, _, _, _)
ScanChangepoints(signal_data, limit, i, changepoints, n) ==
    IF i >= n - 10 THEN changepoints
    ELSE LET before_mean == FMean(SubSeq(signal_data, i - 9, i))
             after_mean == FMean(SubSeq(signal_data, i + 1, i + 10))
             hit == /\ FGt(FAbs(FSub(after_mean, before_mean)), limit)
                    /\ \/ changepoints = <<>>
                       \/ i - changepoints[Len(changepoints)] > 10
         IN ScanChangepoints(signal_data, limit, i + 1,
                             IF hit THEN Append(changepoints, i) ELSE changepoints, n)

\* PhaseTransitionDetector.detect_changepoints
DetectChangepoints(signal_data, penalty) ==
    LET n == Len(signal_data)
    IN IF n < 10 THEN <<>>
       ELSE IF n < 10 * 2 THEN <<>>
       ELSE ScanChangepoints(signal_data, FMul(penalty, Std(signal_data)), 10, <<>>, n)

EnhancedKeys == {"understanding_a_b", "understanding_b_a", "transfer_entropy_a_b",
                 "transfer_entropy_b_a", "integrated_information", "order_parameter",
                 "phase_transitions", "shared_space"}

\* "Update history" of EnhancedReciprocMirrorSystem.step
RecordEnhanced(h, a, b, te_a_b, te_b_a, phi, order, shared_space) ==
    [h EXCEPT
        !.understanding_a_b = Append(@, a.understanding_of_other),
        !.understanding_b_a = Append(@, b.understanding_of_other),
        !.transfer_entropy_a_b = Append(@, te_a_b),
        !.transfer_entropy_b_a = Append(@, te_b_a),
        !.integrated_information = Append(@, phi),
        !.order_parameter = Append(@, order),
        !.shared_space = Append(@, shared_space)]

\* EnhancedReciprocMirrorSystem.step
StepEnhanced ==
    /\ variant = "enhanced"
    /\ time < MaxTime
    /\ \E a0 \in {agent["a"]} :
       \E b0 \in {agent["b"]} :
       \E mirror_a_to_b \in {EnhancedMirror(a0, b0.dimensions, rng)} :
       \E mirror_b_to_a \in {EnhancedMirror(b0, a0.dimensions, Advance(rng, D))} :
       \E quality_a \in {FAbs(Corrcoef(mirror_a_to_b, b0.dimensions))} :
       \E quality_b \in {FAbs(Corrcoef(mirror_b_to_a, a0.dimensions))} :
       \E a1 \in {EnhancedUpdateUnderstanding(
                     [a0 EXCEPT !.mirror_history = Append(@, mirror_a_to_b)], quality_a)} :
       \E b1 \in {EnhancedUpdateUnderstanding(
                     [b0 EXCEPT !.mirror_history = Append(@, mirror_b_to_a)], quality_b)} :
       \E new_state_a \in {StateUpdate(VAdd(a1.dimensions,
                              VScale(a1.convergence_rate,
                                     VSub(mirror_b_to_a, a1.dimensions))))} :
       \E new_state_b \in {StateUpdate(VAdd(b1.dimensions,
                              VScale(b1.convergence_rate,
                                     VSub(mirror_a_to_b, b1.dimensions))))} :
       \E a2 \in {[a1 EXCEPT !.dimensions = new_state_a,
                             !.state_history = Append(@, new_state_a)]} :
       \E b2 \in {[b1 EXCEPT !.dimensions = new_state_b,
                             !.state_history = Append(@, new_state_b)]} :
       \E informed \in {Len(a2.state_history) > 3} :
       \E te_a_b \in {IF informed
                      THEN TransferEntropy(LastN(a2.state_history, 5),
                                           LastN(b2.state_history, 5))
                      ELSE 0} :
       \E te_b_a \in {IF informed
                      THEN TransferEntropy(LastN(b2.state_history, 5),
                                           LastN(a2.state_history, 5))
                      ELSE 0} :
       \E phi \in {IF informed
                   THEN IntegratedInformation(
                           [i \in 1..3 |-> Concat(LastN(a2.state_history, 3)[i],
                                                  LastN(b2.state_history, 3)[i])])
                   ELSE 0} :
       \E order \in {OrderParameter(a2.dimensions, b2.dimensions)} :
       \E a3 \in {[a2 EXCEPT !.energy = EnergyDecay(@, energy_depletion_rate)]} :
       \E b3 \in {[b2 EXCEPT !.energy = EnergyDecay(@, energy_depletion_rate)]} :
       \E alignment \in {FAbs(Dot(a3.dimensions, b3.dimensions))} :
       \E shared_space \in {FMul(alignment, PyMin(a3.understanding_of_other,
                                                  b3.understanding_of_other))} :
       \E t1 \in {time + 1} :
       /\ agent' = [ag \in Agents |-> IF ag = "a" THEN a3 ELSE b3]
       /\ mirrors' = [ag \in Agents |-> IF ag = "a" THEN mirror_a_to_b ELSE mirror_b_to_a]
       /\ rng' = Advance(rng, 2 * D)
       /\ history' = RecordEnhanced(history, a3, b3, te_a_b, te_b_a, phi, order,
                                    shared_space)
       /\ time' = t1
       /\ result' = [time |-> t1,
                     transfer_entropy |->
                         IF IsNaN(FAdd(te_a_b, te_b_a)) THEN NaN
                         ELSE TruncDiv(te_a_b + te_b_a, 2),
                     integrated_information |-> phi,
                     order_parameter |-> order]
    /\ UNCHANGED <<variant, energy_depletion_rate, grace_period>>

\* EnhancedReciprocMirrorSystem.analyze_phase_transitions
AnalyzePhaseTransitions ==
    /\ variant = "enhanced"
    /\ Len(history.order_parameter) > 20
    /\ history' = [history EXCEPT
            !.phase_transitions = DetectChangepoints(history.order_parameter, 100)]
    /\ UNCHANGED <<variant, agent, time, result, rng, energy_depletion_rate,
                   grace_period, mirrors, sim, detector>>

\* ----------------------------------------------------------------- callers
\* detect_changepoints has not been called on its own
NoDetection == [pc |-> "none"]

\* no call of simulate has been made
NoCall == [pc |-> "idle", max_steps |-> 0, steps |-> 0, start |-> 0, returned |-> <<>>]

\* a system that latches disengagement: once a step has returned
\* continue = False, step only counts
DirectStepBaseLatched ==
    /\ sim.pc = "idle"
    /\ variant = "base"
    /\ IF time > 0 /\ ~result.continue
       THEN /\ time < MaxTime
            /\ time' = time + 1
            /\ result' = [result EXCEPT !.time = time + 1]
            /\ UNCHANGED <<variant, agent, history, rng, energy_depletion_rate,
                           grace_period, mirrors>>
       ELSE StepBase
    /\ UNCHANGED <<sim, detector>>

\* a script calls step itself, whatever the last step returned
DirectStepBase == sim.pc = "idle" /\ StepBase /\ UNCHANGED <<sim, detector>>
DirectStepTrust == sim.pc = "idle" /\ StepTrust /\ UNCHANGED <<sim, detector>>
DirectStepEnhanced == sim.pc = "idle" /\ StepEnhanced /\ UNCHANGED <<sim, detector>>

\* simulate is called no later than at time MaxCallTime, with one of these
\* values of max_steps
MaxCallTime == 1
StepBudgets == {0, 3, MaxTime - MaxCallTime}

\* ReciprocMirrorSystem.simulate is entered: "for step in range(max_steps)"
SimulateCall ==
    /\ variant \in {"base", "trust"}
    /\ sim.pc = "idle"
    /\ time <= MaxCallTime
    /\ \E max_steps \in StepBudgets :
          sim' = [pc |-> "loop", max_steps |-> max_steps, steps |-> 0,
                  start |-> time, returned |-> <<>>]
    /\ UNCHANGED <<variant, agent, time, history, result, rng,
                   energy_depletion_rate, grace_period, mirrors, detector>>

\* the loop of simulate without its break
AfterStepNoBreak(continue) == "loop"

\* the pc after "result = self.step()": "break" if not result['continue']
AfterStep(continue) == IF continue THEN "loop" ELSE "break"

\* one iteration of the loop of simulate (base)
SimulateBase ==
    /\ sim.pc = "loop"
    /\ sim.steps < sim.max_steps
    /\ StepBase
    /\ sim' = [sim EXCEPT !.steps = @ + 1, !.pc = AfterStep(result'.continue)]
    /\ UNCHANGED detector

\* one iteration of the loop of simulate (trust)
SimulateTrust ==
    /\ sim.pc = "loop"
    /\ sim.steps < sim.max_steps
    /\ StepTrust
    /\ sim' = [sim EXCEPT !.steps = @ + 1, !.pc = AfterStep(result'.continue)]
    /\ UNCHANGED detector

\* the loop has ended, by exhaustion of the range or by break:
\* "return self.history"
SimulateReturn ==
    /\ \/ sim.pc = "break"
       \/ sim.pc = "loop" /\ sim.steps = sim.max_steps
    /\ sim' = [sim EXCEPT !.pc = "done", !.returned = history]
    /\ UNCHANGED <<variant, agent, time, history, result, rng,
                   energy_depletion_rate, grace_period, mirrors, detector>>

\* ------------------------------------------------------------ construction
\* learning_rate, convergence_rate and openness of agents a and b: the
\* constructor defaults, the values of the example runs, a fast pair, and an
\* agent a that is closed (openness 0.0, the low end of its range)
Rates == {[lr |-> <<100, 100>>, cr |-> <<20, 20>>, op |-> <<700, 600>>],
          [lr |-> <<50, 40>>, cr |-> <<20, 25>>, op |-> <<700, 600>>],
          [lr |-> <<400, 400>>, cr |-> <<500, 500>>, op |-> <<700, 600>>],
          [lr |-> <<100, 100>>, cr |-> <<20, 20>>, op |-> <<0, 600>>]}
DepletionRates == {0, 2, 300}
GracePeriods == {3, 10}
InitialTrusts == {<<700, 300>>, <<500, 500>>, <<900, 900>>}

InitBase ==
    \E s \in Seeds, p \in Rates,
       rate \in DepletionRates, g \in GracePeriods :
        /\ variant = "base"
        /\ agent = [ag \in Agents |->
              IF ag = "a"
              THEN NewAgent(Randn(SeedState(s)), 500, p.op[1], 1000, 300, p.lr[1], p.cr[1])
              ELSE NewAgent(Randn(Advance(SeedState(s), D)), 700, p.op[2], 1000, 250,
                            p.lr[2], p.cr[2])]
        /\ rng = Advance(SeedState(s), 2 * D)
        /\ time = 0
        /\ history = [k \in BaseKeys |-> <<>>]
        /\ result = [time |-> 0]
        /\ mirrors = [ag \in Agents |-> <<>>]
        /\ sim = NoCall
        /\ detector = NoDetection
        /\ energy_depletion_rate = rate
        /\ grace_period = g

InitTrust ==
    \E s \in Seeds, p \in Rates,
       rate \in DepletionRates, g \in GracePeriods, it \in InitialTrusts :
        /\ variant = "trust"
        /\ agent = [ag \in Agents |->
              IF ag = "a"
              THEN NewTrustAgent(Randn(SeedState(s)), 500, p.op[1], 1000, 300,
                                 p.lr[1], p.cr[1], it[1], 20)
              ELSE NewTrustAgent(Randn(Advance(SeedState(s), D)), 700, p.op[2], 1000, 250,
                                 p.lr[2], p.cr[2], it[2], 20)]
        /\ rng = Advance(SeedState(s), 2 * D)
        /\ time = 0
        /\ history = [k \in TrustKeys |-> <<>>]
        /\ result = [time |-> 0]
        /\ mirrors = [ag \in Agents |-> <<>>]
        /\ sim = NoCall
        /\ detector = NoDetection
        /\ energy_depletion_rate = rate
        /\ grace_period = g

NoiseLevels == {100, 300}

\* the enhanced system has no grace period: grace_period is 0 and never read
InitEnhanced ==
    \E s \in Seeds, p \in Rates,
       rate \in DepletionRates, nl \in NoiseLevels :
        /\ variant = "enhanced"
        /\ agent = [ag \in Agents |->
              IF ag = "a"
              THEN NewEnhancedAgent(Randn(SeedState(s)), 500, p.op[1], 1000, 300,
                                    p.lr[1], p.cr[1], nl)
              ELSE NewEnhancedAgent(Randn(Advance(SeedState(s), D)), 700, p.op[2], 1000, 300,
                                    p.lr[2], p.cr[2], nl)]
        /\ rng = Advance(SeedState(s), 2 * D)
        /\ time = 0
        /\ history = [k \in EnhancedKeys |-> <<>>]
        /\ result = [time |-> 0]
        /\ mirrors = [ag \in Agents |-> <<>>]
        /\ sim = NoCall
        /\ detector = NoDetection
        /\ energy_depletion_rate = rate
        /\ grace_period = 0

Init == InitBase \/ InitTrust \/ InitEnhanced

Next ==
    \/ DirectStepBase
    \/ DirectStepTrust
    \/ DirectStepEnhanced
    \/ AnalyzePhaseTransitions
    \/ SimulateCall
    \/ SimulateBase
    \/ SimulateTrust
    \/ SimulateReturn

Spec == Init /\ [][Next]_vars

\* ----------------------------------------------- the detector on its own
\* longest plateau of the series given to detect_changepoints
MaxPlateau == 12
PlateauLengths == {0, 9, MaxPlateau - 1, MaxPlateau}
PlateauLevels == {0, 300, 1000}
\* the default penalty, and the one analyze_phase_transitions passes
Penalties == {5000, 100}

\* a series of three plateaus
Plateaus(k, l) ==
    [i \in 1..(k[1] + k[2] + k[3]) |->
        IF i <= k[1] THEN l[1] ELSE IF i <= k[1] + k[2] THEN l[2] ELSE l[3]]

\* a script calls PhaseTransitionDetector.detect_changepoints(signal_data, penalty)
InitDetect ==
    \E k \in PlateauLengths \X PlateauLengths \X PlateauLengths,
       l \in PlateauLevels \X PlateauLevels \X PlateauLevels,
       penalty \in Penalties :
        /\ variant = "detector"
        /\ detector = [pc |-> "called", signal_data |-> Plateaus(k, l),
                       penalty |-> penalty, changepoints |-> <<>>]
        /\ agent = <<>>
        /\ rng = 0
        /\ time = 0
        /\ history = <<>>
        /\ result = <<>>
        /\ mirrors = <<>>
        /\ sim = NoCall
        /\ energy_depletion_rate = 0
        /\ grace_period = 0

\* the call returns
Detect ==
    /\ detector.pc = "called"
    /\ detector' = [detector EXCEPT
          !.pc = "returned",
          !.changepoints = DetectChangepoints(detector.signal_data, detector.penalty)]
    /\ UNCHANGED <<variant, agent, time, history, result, rng,
                   energy_depletion_rate, grace_period, mirrors, sim>>

NextDetect == Detect

SpecDetect == InitDetect /\ [][NextDetect]_vars

\* ------------------------------------------------- the sequential regime
\* values of n_steps given to run_sequential_simulation
SequentialSteps == {0, 1, 2, 7, 8, MaxTime}

\* the wrong turn: agent a acts on every step
TurnAlwaysA(t) == "a"

\* "if t % 2 == 0: (A observes B) else: (B observes A)"
Turn(t) == IF t % 2 = 0 THEN "a" ELSE "b"

Other(ag) == IF ag = "a" THEN "b" ELSE "a"

\* the wrong branch: the observer also converges toward its mirror and tires
ObserveAndConverge(self, other_dims, r) ==
    LET mirror == EnhancedMirror(self, other_dims, r)
        quality == FAbs(Corrcoef(mirror, other_dims))
        updated == EnhancedUpdateUnderstanding(
                      [self EXCEPT !.mirror_history = Append(@, mirror)], quality)
        new_state == StateUpdate(VAdd(updated.dimensions,
                        VScale(updated.convergence_rate,
                               VSub(mirror, updated.dimensions))))
    IN [updated EXCEPT !.dimensions = new_state,
                       !.state_history = Append(@, new_state),
                       !.energy = EnergyDecay(@, 2)]

\* one branch of the loop of run_sequential_simulation: the agent mirrors
\* the other state, measures the quality and updates its understanding
Observe(self, other_dims, r) ==
    LET mirror == EnhancedMirror(self, other_dims, r)
        quality == FAbs(Corrcoef(mirror, other_dims))
    IN EnhancedUpdateUnderstanding(
          [self EXCEPT !.mirror_history = Append(@, mirror)], quality)

\* run_sequential_simulation(seed, n_steps) up to its loop
InitSequential ==
    \E s \in Seeds, n_steps \in SequentialSteps :
        /\ variant = "sequential"
        /\ agent = [ag \in Agents |->
              IF ag = "a"
              THEN NewEnhancedAgent(Randn(SeedState(s)), 500, 700, 1000, 300,
                                    100, 20, 100)
              ELSE NewEnhancedAgent(Randn(Advance(SeedState(s), D)), 700, 600, 1000, 300,
                                    100, 20, 100)]
        /\ rng = Advance(SeedState(s), 2 * D)
        /\ time = 0
        /\ history = [understanding_trajectory |-> <<>>]
        /\ result = [time |-> 0]
        /\ mirrors = [ag \in Agents |-> <<>>]
        /\ sim = [pc |-> "loop", max_steps |-> n_steps, steps |-> 0,
                  start |-> 0, returned |-> <<>>]
        /\ detector = NoDetection
        /\ energy_depletion_rate = 0
        /\ grace_period = 0

\* one iteration of "for t in range(n_steps)"; time is t
SequentialStep ==
    /\ variant = "sequential"
    /\ sim.pc = "loop"
    /\ time < sim.max_steps
    /\ \E ag \in {Turn(time)} :
       \E observer \in {Observe(agent[ag], agent[Other(ag)].dimensions, rng)} :
       \E next \in {[agent EXCEPT ![ag] = observer]} :
       \E avg_understanding \in {TruncDiv(next["a"].understanding_of_other
                                          + next["b"].understanding_of_other, 2)} :
       /\ agent' = next
       /\ mirrors' = [mirrors EXCEPT
                         ![ag] = observer.mirror_history[Len(observer.mirror_history)]]
       /\ rng' = Advance(rng, D)
       /\ history' = [history EXCEPT
                         !.understanding_trajectory = Append(@, avg_understanding)]
       /\ time' = time + 1
       /\ sim' = [sim EXCEPT !.steps = @ + 1]
    /\ UNCHANGED <<variant, result, energy_depletion_rate, grace_period, detector>>

\* "return understanding_trajectory"
SequentialReturn ==
    /\ variant = "sequential"
    /\ sim.pc = "loop"
    /\ time = sim.max_steps
    /\ sim' = [sim EXCEPT !.pc = "done", !.returned = history.understanding_trajectory]
    /\ UNCHANGED <<variant, agent, time, history, result, rng,
                   energy_depletion_rate, grace_period, mirrors, detector>>

NextSequential ==
    \/ SequentialStep
    \/ SequentialReturn

SpecSequential == InitSequential /\ [][NextSequential]_vars

\* --------------------------------------- the energy update in double precision
\* The models above keep energy as a decimal with three places, which a
\* subtraction never rounds.  Python's floats are IEEE 754 doubles: here the
\* energy update is computed bit for bit.  A double x >= 2^-10 is the integer
\* x * 2^62, kept in three limbs: value = (hi * 2^26 + mid) * 2^10 + lo.
MidBase == 2^26
LoBase == 2^10

\* the number of low bits that a double of this magnitude does not have:
\* 53 significant bits are kept
DropBits(x) ==
    CHOOSE g \in 0..10 : /\ x.hi >= 2^(16 + g)
                         /\ g = 10 \/ x.hi < 2^(17 + g)

DLess(x, y) ==
    \/ x.hi < y.hi
    \/ x.hi = y.hi /\ x.mid < y.mid
    \/ x.hi = y.hi /\ x.mid = y.mid /\ x.lo < y.lo

\* round to nearest, ties to even.  fraction describes what the exact value
\* has below its last limb bit: 0 nothing, 1 less than half a bit, 2 half a
\* bit, 3 more
DRound(x, fraction) ==
    LET g == DropBits(x)
        m == 2^g
        rem == x.lo % m
        half == m \div 2
        kept_odd == IF g = 10 THEN x.mid % 2 = 1 ELSE (x.lo \div m) % 2 = 1
        cmp == IF g = 0
               THEN (IF fraction = 3 THEN 1 ELSE IF fraction = 2 THEN 0 ELSE -1)
               ELSE IF rem > half THEN 1
               ELSE IF rem < half THEN -1
               ELSE IF fraction = 0 THEN 0 ELSE 1
        up == cmp = 1 \/ (cmp = 0 /\ kept_odd)
        lo1 == x.lo - rem + (IF up THEN m ELSE 0)
        mid1 == x.mid + lo1 \div LoBase
    IN [hi |-> x.hi + mid1 \div MidBase, mid |-> mid1 % MidBase, lo |-> lo1 % LoBase]

\* the double a decimal literal p / 1000 denotes (0.001 <= p / 1000 <= 1):
\* p * 2^62 / 1000 by long division, then rounded
DblOf(p) ==
    LET q1 == (p * 2^14) \div SC
        r1 == (p * 2^14) % SC
        q2 == (r1 * 2^12) \div SC
        r2 == (r1 * 2^12) % SC
        q3 == (r2 * 2^12) \div SC
        r3 == (r2 * 2^12) % SC
        q4 == (r3 * 2^12) \div SC
        r4 == (r3 * 2^12) % SC
        q5 == (r4 * 2^12) \div SC
        r5 == (r4 * 2^12) % SC
        fraction == IF r5 = 0 THEN 0
                    ELSE IF 2 * r5 < SC THEN 1
                    ELSE IF 2 * r5 = SC THEN 2 ELSE 3
    IN DRound([hi |-> q1 * 2^12 + q2,
               mid |-> q3 * 2^14 + q4 * 4 + q5 \div LoBase,
               lo |-> q5 % LoBase], fraction)

\* x - y before rounding, for x >= y: both are multiples of 2^-62, so the
\* difference is one too
DSubExact(x, y) ==
    LET lo0 == x.lo - y.lo
        b1 == IF lo0 < 0 THEN 1 ELSE 0
        mid0 == x.mid - y.mid - b1
        b2 == IF mid0 < 0 THEN 1 ELSE 0
    IN [hi |-> x.hi - y.hi - b2, mid |-> mid0 + b2 * MidBase, lo |-> lo0 + b1 * LoBase]

\* the energy assignment without the floor
FloatEnergyDecayNoFloor(energy, rate) ==
    IF DLess(energy, rate) THEN energy
    ELSE LET exact == DSubExact(energy, rate)
         IN IF DLess(exact, DblOf(100)) THEN exact ELSE DRound(exact, 0)

\* "max(0.1, self.agent_a.state.energy - self.energy_depletion_rate)" on
\* doubles.  A difference below 0.1 is at most 0.1 after rounding as well,
\* and max then returns its first argument.
FloatEnergyDecay(energy, rate) ==
    IF DLess(energy, rate) THEN DblOf(100)
    ELSE LET exact == DSubExact(energy, rate)
         IN IF DLess(exact, DblOf(100)) THEN DblOf(100)
            ELSE LET difference == DRound(exact, 0)
                 IN IF DLess(DblOf(100), difference) THEN difference ELSE DblOf(100)

\* the energy each agent is constructed with, and the depletion rates, as
\* decimal literals in thousandths
InitialEnergy == [a |-> 1000, b |-> 550]
FloatRates == {2, 8, 100, 300, 450}
MaxDecaySteps == 452

\* two states are constructed and a system with one of the rates
InitEnergy ==
    \E p \in FloatRates :
        /\ variant = "energy"
        /\ agent = [ag \in Agents |-> [energy |-> DblOf(InitialEnergy[ag])]]
        /\ energy_depletion_rate = p
        /\ time = 0
        /\ rng = 0
        /\ history = <<>>
        /\ result = <<>>
        /\ mirrors = <<>>
        /\ sim = NoCall
        /\ detector = NoDetection
        /\ grace_period = 0

\* "Energy depletion" of step, which reads and writes nothing but the two
\* energies, followed by "self.time += 1"
DecayStep ==
    /\ variant = "energy"
    /\ time < MaxDecaySteps
    /\ agent' = [ag \in Agents |->
                   [energy |-> FloatEnergyDecay(agent[ag].energy,
                                                DblOf(energy_depletion_rate))]]
    /\ time' = time + 1
    /\ UNCHANGED <<variant, history, result, rng, energy_depletion_rate,
                   grace_period, mirrors, sim, detector>>

NextEnergy == DecayStep

SpecEnergy == InitEnergy /\ [][NextEnergy]_vars

\* ------------------------------------------------------------- properties
Choosing == variant \in {"base", "trust"}
Stepped == time > 0
Understanding(ag) == agent[ag].understanding_of_other
Entries(k) == {history[k][i] : i \in 1..Len(history[k])}
InRange(x, lo, hi) == ~IsNaN(x) /\ lo <= x /\ x <= hi

\* C1: no step lowers an agent's understanding_of_other.
C1_MonotoneUnderstanding ==
    [][\A ag \in Agents :
          FLt(agent[ag].understanding_of_other, agent'[ag].understanding_of_other)
          \/ agent'[ag].understanding_of_other = agent[ag].understanding_of_other]_vars

\* C2: understanding_of_other of each agent is always within [0, 1].
C2_UnderstandingInUnitInterval ==
    \A ag \in Agents : InRange(Understanding(ag), 0, SC)

\* C3: phase is always the bucket of understanding_of_other under the
\* thresholds 0.25, 0.5 and 0.75.
C3_PhaseConsistency ==
    \A ag \in Agents :
        /\ agent[ag].phase \in 1..4
        /\ agent[ag].phase = 1 <=> Understanding(ag) < 250
        /\ agent[ag].phase = 2 <=> (250 <= Understanding(ag) /\ Understanding(ag) < 500)
        /\ agent[ag].phase = 3 <=> (500 <= Understanding(ag) /\ Understanding(ag) < 750)
        /\ agent[ag].phase = 4 <=> 750 <= Understanding(ag)

\* a step has left the two agents in different buckets, one of them late
C3_Witness ==
    /\ Stepped
    /\ agent["a"].phase >= 3
    /\ agent["b"].phase < agent["a"].phase

\* C4: each agent's energy and every recorded energy value is within
\* [0.1, 1.0].
C4_EnergyBounds ==
    /\ \A ag \in Agents : InRange(agent[ag].energy, 100, SC)
    /\ Choosing => \A e \in Entries("energy_a") \cup Entries("energy_b") :
                       InRange(e, 100, SC)

\* the floor has cut a decrement short: one step earlier the energy was
\* less than one rate above the floor
C4_Witness ==
    /\ Choosing
    /\ Len(history.energy_a) >= 2
    /\ history.energy_a[Len(history.energy_a)] = 100
    /\ history.energy_a[Len(history.energy_a) - 1] - energy_depletion_rate < 100

\* C5: no step raises an agent's energy.
C5_EnergyNonIncreasing ==
    [][\A ag \in Agents : agent'[ag].energy <= agent[ag].energy]_vars

\* a step has lowered the energy of both agents
C5_Witness ==
    /\ Stepped
    /\ \A ag \in Agents : agent[ag].energy < SC /\ agent[ag].energy > 100

\* C6: in the trust model every stored trust value is within [0.1, 1.0].
C6_TrustBounds ==
    variant = "trust" =>
        /\ \A ag \in Agents :
              /\ InRange(agent[ag].trust, 100, SC)
              /\ \A i \in 1..Len(agent[ag].trust_history) :
                    InRange(agent[ag].trust_history[i], 100, SC)
        /\ \A t \in Entries("trust_a") \cup Entries("trust_b") : InRange(t, 100, SC)

\* a betrayal has been counted against an agent whose trust sits at the floor
C6_Witness ==
    /\ variant = "trust"
    /\ \E ag \in Agents :
          /\ agent[ag].trust = 100
          /\ agent[ag].betrayals >= 2
          /\ Len(agent[ag].trust_history) >= 3
          /\ agent[ag].trust_history[Len(agent[ag].trust_history) - 1] = 100

\* C7: every shared_space value recorded or returned is within [0, 1].
C7_SharedSpaceBounds ==
    /\ \A x \in Entries("shared_space") : InRange(x, 0, SC)
    /\ (Choosing /\ Stepped) => InRange(result.shared_space, 0, SC)

PerStepKeys == DOMAIN history \ {"phase_transitions"}

C9_GracePeriod ==
    (Choosing /\ Stepped /\ result.time < grace_period) => result.continue

\* during the grace period a step returned True although an agent was below
\* its threshold
C9_Witness ==
    /\ Choosing
    /\ Stepped
    /\ time < grace_period
    /\ \E ag \in Agents : Understanding(ag) < agent[ag].threshold
    /\ result.continue

\* C10: from the grace period on, a step that leaves an agent's understanding
\* below its threshold returns continue = False.
C10_LowUnderstandingDisengages ==
    (/\ Choosing
     /\ Stepped
     /\ time >= grace_period
     /\ \E ag \in Agents : Understanding(ag) < agent[ag].threshold)
        => ~result.continue

\* the step that brought time to the grace period returned False for an agent
\* below its threshold
C10_Witness ==
    /\ Choosing
    /\ Stepped
    /\ time = grace_period
    /\ \E ag \in Agents : Understanding(ag) < agent[ag].threshold
    /\ ~result.continue

\* make_choice of agent ag, called now with the system's grace period
Choice(ag) ==
    IF variant = "trust" THEN TrustMakeChoice(agent[ag], time, grace_period)
    ELSE MakeChoice(agent[ag], time, grace_period)

\* C11: the continue flag a step returns is the conjunction of the two
\* agents' make_choice results at the incremented time: it is False exactly
\* when at least one agent decides to disengage.
C11_ContinueIsConjunction ==
    (Choosing /\ Stepped) =>
        /\ result.time = time
        /\ result.continue <=> (Choice("a") /\ Choice("b"))
        /\ ~result.continue <=> (\E ag \in Agents : ~Choice(ag))

\* after the grace period one agent alone has decided to disengage and the
\* step returned False
C11_Witness ==
    /\ Choosing
    /\ Stepped
    /\ time >= grace_period
    /\ \E ag \in Agents : Choice(ag)
    /\ \E ag \in Agents : ~Choice(ag)
    /\ ~result.continue

\* C12 as stated: from the grace period on, a step that leaves an agent in
\* phase 3 or 4 with energy below 0.2 returns continue = False, in the base
\* and in the trust model.
C12_LateEnergyDisengages ==
    (/\ Choosing
     /\ Stepped
     /\ time >= grace_period
     /\ \E ag \in Agents : agent[ag].phase >= 3 /\ agent[ag].energy < 200)
        => ~result.continue

\* the high-trust rule of the trust model's make_choice applies to agent ag
HighTrust(ag) == variant = "trust" /\ agent[ag].trust > 800

\* C12 as amended: from the grace period on, a step that leaves an agent in
\* phase 3 or 4 with energy below 0.2 returns continue = False, unless, in
\* the trust model, that agent's trust is above 0.8.
C12_LateEnergyDisengagesUnlessHighTrust ==
    (/\ Choosing
     /\ Stepped
     /\ time >= grace_period
     /\ \E ag \in Agents :
           agent[ag].phase >= 3 /\ agent[ag].energy < 200 /\ ~HighTrust(ag))
        => ~result.continue

\* after the grace period an agent above its threshold, in a late phase and
\* short of energy, has ended the interaction
C12_Witness ==
    /\ Choosing
    /\ Stepped
    /\ time >= grace_period
    /\ \E ag \in Agents :
          /\ agent[ag].phase >= 3
          /\ agent[ag].energy < 200
          /\ ~HighTrust(ag)
          /\ ~FLt(agent[ag].understanding_of_other,
                  IF variant = "trust"
                  THEN FMul(agent[ag].threshold, FSub(2 * SC, agent[ag].trust))
                  ELSE agent[ag].threshold)
    /\ ~result.continue

\* no NaN in the state vector, the understanding or the trust of agent ag
NoNaNField(ag) ==
    /\ ~HasNaN(agent[ag].dimensions)
    /\ ~IsNaN(agent[ag].understanding_of_other)
    /\ variant = "trust" => ~IsNaN(agent[ag].trust)

\* C13: a mirror, a construction or a convergence that would normalize a
\* vector of zero norm yields the uniform unit vector instead, so that no
\* mirror, state vector, understanding, trust or history entry is ever NaN.
C13_ZeroVectorHandling ==
    /\ \A ag \in Agents :
          /\ NoNaNField(ag)
          /\ mirrors[ag] # <<>> => ~HasNaN(mirrors[ag])
    /\ \A k \in DOMAIN history : \A x \in Entries(k) : ~IsNaN(x)

\* the Euclidean norm of v is 1 up to the rounding of the components
UnitNorm(v) ==
    /\ ~HasNaN(v)
    /\ Sum([i \in DOMAIN v |-> v[i] * v[i]]) <= SC * SC
    /\ Sum([i \in DOMAIN v |-> v[i] * v[i]]) >= (SC - SC \div 200) * (SC - SC \div 200)

\* C14: each agent's state vector has unit norm after construction and after
\* every step, and so has every mirror that mirror has returned.
C14_NormalizationInvariant ==
    \A ag \in Agents :
        /\ UnitNorm(agent[ag].dimensions)
        /\ mirrors[ag] # <<>> => UnitNorm(mirrors[ag])
        /\ variant = "enhanced" =>
               \A i \in 1..Len(agent[ag].state_history) :
                   UnitNorm(agent[ag].state_history[i])

\* a call of simulate is under way or has returned
Called == sim.pc # "idle"

\* the loop of simulate has ended, by break or by exhaustion of its range
LoopOver ==
    \/ sim.pc = "break"
    \/ sim.pc = "loop" /\ sim.steps = sim.max_steps

\* C16: a call of simulate executes at most max_steps steps, each of which
\* uses up one of them; it executes no step after one that returned
\* continue = False; when the loop is over it can return, it returns the
\* history mapping, and time has then advanced by the number of steps executed.
C16_SimulateTerminates ==
    /\ [](Called =>
            /\ sim.steps <= sim.max_steps
            /\ time = sim.start + sim.steps
            /\ (sim.pc = "loop" /\ sim.steps > 0) => result.continue
            /\ sim.pc = "done" =>
                  /\ sim.returned = history
                  /\ sim.steps = sim.max_steps \/ ~result.continue)
    /\ [][(Called /\ sim.steps > 0 /\ ~result.continue) =>
             (time' = time /\ agent' = agent /\ history' = history)]_vars
    /\ [][(Called /\ time' # time) =>
             /\ time' = time + 1
             /\ sim'.steps = sim.steps + 1
             /\ sim'.max_steps = sim.max_steps
             /\ sim'.start = sim.start]_vars
    /\ [](LoopOver => ENABLED SimulateReturn)

\* a call with steps to spare has returned right after a step that returned
\* continue = False
C16_Witness ==
    /\ sim.pc = "done"
    /\ sim.steps > 0
    /\ sim.steps < sim.max_steps
    /\ ~result.continue
    /\ sim.returned = history
    /\ time = sim.start + sim.steps

\* the mirror agent ag returns when it reads the other agent and itself as
\* they are now and draws its noise from r
MirrorNow(ag, other, r) ==
    IF variant = "enhanced" THEN EnhancedMirror(agent[ag], agent[other].dimensions, r)
    ELSE LET scaled == IF variant = "base"
                       THEN MirrorScaled(agent[ag], agent[other].dimensions,
                                         agent[ag].understanding_of_other, r)
                       ELSE TrustMirrorScaled(agent[ag], agent[other].dimensions,
                                              agent[ag].understanding_of_other, r)
         IN CHOOSE m \in {Unit(v) : v \in {scaled}} : TRUE

\* C17: the two mirrors a step returns are both computed from the state
\* before the step: each reads the partner's vector and its own understanding,
\* openness, energy and trust as they were when the step began.
C17_SimultaneousMirroring ==
    [][time' = time + 1 =>
          /\ mirrors'["a"] = MirrorNow("a", "b", rng)
          /\ mirrors'["b"] = MirrorNow("b", "a", Advance(rng, D))]_vars

\* a step has changed both understandings and moved agent a's vector, and
\* has returned two mirrors
C17_Witness ==
    /\ time >= 2
    /\ \A ag \in Agents : mirrors[ag] # <<>> /\ ~HasNaN(mirrors[ag])
    /\ history.understanding_a_b[time] # history.understanding_a_b[time - 1]
    /\ history.understanding_b_a[time] # history.understanding_b_a[time - 1]
    /\ variant = "enhanced" =>
          agent["a"].state_history[time + 1] # agent["a"].state_history[time]

\* the record the last update_trust of agent ag stored
LastRecord(ag) == agent[ag].interaction_memory[Len(agent[ag].interaction_memory)]

\* C18: in a step of the trust model both trust updates come before the
\* understanding updates: each stores the agent's phase from before the step
\* and amplifies by it, and both store the one shared-space value computed
\* from the vectors, understandings and trusts from before the step.
C18_TrustBeforeUnderstanding ==
    [][(variant = "trust" /\ time' = time + 1) =>
          \A shared_space \in {TrustSharedSpace(agent)} :
          \A ag \in Agents :
          \A mem \in {agent'[ag].interaction_memory} :
          \A rec \in {mem[Len(mem)]} :
             /\ rec.shared_space = shared_space
             /\ rec.phase = agent[ag].phase
             /\ rec.time = time
             /\ agent'[ag].trust =
                   ClipTrust(FAdd(agent[ag].trust,
                                  TrustDelta(TrustCase(mem, rec.quality),
                                             agent[ag].phase, rec.quality)))]_vars

\* a step of the trust model has moved an agent into another phase, and
\* the shared space both agents stored is not the one the step recorded
C18_Witness ==
    /\ variant = "trust"
    /\ time >= 2
    /\ \E ag \in Agents : agent[ag].phase # LastRecord(ag).phase
    /\ LastRecord("a").shared_space = LastRecord("b").shared_space
    /\ LastRecord("a").shared_space # history.shared_space[time]
    /\ LastRecord("a").shared_space # 0

\* convergence_rate x understanding_of_other x openness as the step leaves
\* them, x energy as the step found it
StrengthApplied(ag) ==
    FMul(FMul(FMul(agent'[ag].convergence_rate, agent'[ag].understanding_of_other),
              agent'[ag].openness), agent[ag].energy)

\* the step has moved the vector of agent ag toward target with strength
\* StrengthApplied and renormalized it (a singleton \A binds a value
\* computed once)
ConvergedTo(ag, target) ==
    \A strength \in {StrengthApplied(ag)} :
    \A state_diff \in {VSub(target, agent[ag].dimensions)} :
    \A moved \in {VAdd(agent[ag].dimensions, VScale(strength, state_diff))} :
        agent'[ag].dimensions = Unit(moved)

\* C19: in a step of the base or trust model each agent converges with the
\* strength convergence_rate x understanding_of_other x openness x energy
\* taken with the understanding (and, in the trust model, the openness and
\* convergence_rate) this step has produced and the energy from before this
\* step's decay.
C19_ConvergenceUsesUpdated ==
    [][(Choosing /\ time' = time + 1) =>
          /\ ConvergedTo("a", agent["b"].dimensions)
          /\ ConvergedTo("b", agent'["a"].dimensions)]_vars

\* a step has changed understanding, energy and alignment at once (and
\* trust, in the trust model)
C19_Witness ==
    /\ Choosing
    /\ time >= 2
    /\ history.energy_a[time] < history.energy_a[time - 1]
    /\ history.understanding_a_b[time] # history.understanding_a_b[time - 1]
    /\ history.understanding_b_a[time] # history.understanding_b_a[time - 1]
    /\ history.state_alignment[time] # history.state_alignment[time - 1]
    /\ variant = "trust" => history.trust_a[time] # history.trust_a[time - 1]

\* the mean of the last three entries of xs
MeanOfLast3(xs) ==
    LET n == Len(xs)
    IN IF IsNaN(xs[n]) \/ IsNaN(xs[n - 1]) \/ IsNaN(xs[n - 2]) THEN NaN
       ELSE TruncDiv(xs[n] + xs[n - 1] + xs[n - 2], 3)

\* C20: an update_trust that leaves at least 3 records in the memory
\* averages quality and shared space over the 3 most recent ones and adds to
\* trust +0.05 (a success) if quality > 0.6 and space > 0.4, else -0.1 (a
\* betrayal) if quality < 0.3 or space < 0.2, else +0.01, times 1.5 if the
\* agent's phase is 3 or 4, and clamps the sum to [0.1, 1.0].
C20_MemoryWeightedTrust ==
    [][(variant = "trust" /\ time' = time + 1) =>
          \A ag \in Agents :
          \A mem \in {agent'[ag].interaction_memory} :
          \A avg_quality \in {IF Len(mem) >= 3
                               THEN MeanOfLast3([i \in 1..Len(mem) |-> mem[i].quality])
                               ELSE 0} :
          \A avg_space \in {IF Len(mem) >= 3
                             THEN MeanOfLast3([i \in 1..Len(mem) |-> mem[i].shared_space])
                             ELSE 0} :
             LET success == FGt(avg_quality, 600) /\ FGt(avg_space, 400)
                 betrayal == ~success /\ (FLt(avg_quality, 300) \/ FLt(avg_space, 200))
                 delta == IF success THEN 50 ELSE IF betrayal THEN -100 ELSE 10
                 amplified == IF agent[ag].phase >= 3 THEN (delta * 3) \div 2 ELSE delta
                 sum == agent[ag].trust + amplified
             IN Len(mem) >= 3 =>
                  /\ agent'[ag].trust = IF sum < 100 THEN 100
                                        ELSE IF sum > 1000 THEN 1000 ELSE sum
                  /\ agent'[ag].successes = agent[ag].successes + (IF success THEN 1 ELSE 0)
                  /\ agent'[ag].betrayals = agent[ag].betrayals + (IF betrayal THEN 1 ELSE 0)]_vars

\* an agent with at least 3 records has counted a success and a betrayal,
\* and is in a late phase
C20_Witness ==
    /\ variant = "trust"
    /\ \E ag \in Agents :
          /\ Len(agent[ag].interaction_memory) >= 3
          /\ agent[ag].successes >= 1
          /\ agent[ag].betrayals >= 1
          /\ LastRecord(ag).phase >= 3

\* C21: in the trust model, once update_trust has run, each agent's openness
\* is base_openness x (0.3 + 0.7 x trust) and its convergence_rate is
\* base_convergence x (0.5 + 0.5 x trust) for its current trust; the two base
\* values never change.
C21_TrustFeedback ==
    /\ []((variant = "trust" /\ Stepped) =>
            \A ag \in Agents :
               /\ agent[ag].openness =
                     TruncDiv(agent[ag].base_openness
                                * (300 + TruncDiv(700 * agent[ag].trust, SC)), SC)
               /\ agent[ag].convergence_rate =
                     TruncDiv(agent[ag].base_convergence
                                * (500 + TruncDiv(500 * agent[ag].trust, SC)), SC))
    /\ [][variant = "trust" =>
             \A ag \in Agents :
                /\ agent'[ag].base_openness = agent[ag].base_openness
                /\ agent'[ag].base_convergence = agent[ag].base_convergence]_vars

\* after several updates the trust of an agent is no longer the initial one
\* and its openness and convergence_rate are below their base values
C21_Witness ==
    /\ variant = "trust"
    /\ time >= 3
    /\ \E ag \in Agents :
          /\ agent[ag].trust # agent[ag].trust_history[1]
          /\ agent[ag].trust_history[time + 1] # agent[ag].trust_history[time]
          /\ agent[ag].openness < agent[ag].base_openness
          /\ agent[ag].convergence_rate < agent[ag].base_convergence

\* C22: each update_trust appends one record of quality, shared_space, time
\* and phase to the interaction memory, evicting the oldest record when the
\* memory is full, so that after k updates the memory holds the most recent
\* min(k, memory_window) records in arrival order.
C22_BoundedFifoMemory ==
    /\ [](variant = "trust" =>
            \A ag \in Agents :
            \A mem \in {agent[ag].interaction_memory} :
               /\ Len(mem) <= agent[ag].memory_window
               /\ Len(mem) = IF time < agent[ag].memory_window
                             THEN time ELSE agent[ag].memory_window
               /\ \A i \in 1..Len(mem) :
                     /\ DOMAIN mem[i] = {"quality", "shared_space", "time", "phase"}
                     /\ mem[i].time = time - Len(mem) + i - 1)
    /\ [][(variant = "trust" /\ time' = time + 1) =>
             \A ag \in Agents :
             \A old \in {agent[ag].interaction_memory} :
             \A new \in {agent'[ag].interaction_memory} :
                /\ new[Len(new)].time = time
                /\ SubSeq(new, 1, Len(new) - 1) =
                      IF Len(old) < agent[ag].memory_window THEN old ELSE Tail(old)]_vars

\* the memory is full and the record of the first update has been evicted
C22_Witness ==
    /\ variant = "trust"
    /\ \E ag \in Agents :
          /\ time > agent[ag].memory_window
          /\ Len(agent[ag].interaction_memory) = agent[ag].memory_window
          /\ agent[ag].interaction_memory[1].time = time - agent[ag].memory_window
          /\ agent[ag].interaction_memory[1].time > 0

\* C23: in the trust model, from the grace period on, an agent whose trust is
\* above 0.8 and whose understanding_of_other is above 0.2 decides to
\* continue, whatever its threshold, phase and energy.
C23_HighTrustContinues ==
    (variant = "trust" /\ Stepped /\ time >= grace_period) =>
        \A ag \in Agents :
           (agent[ag].trust > 800 /\ agent[ag].understanding_of_other > 200)
              => TrustMakeChoice(agent[ag], time, grace_period)

\* the means of the 10 values from index i (0-based) on and of the 10 values
\* before it differ by more than limit
MeansDiffer(signal_data, i, limit) ==
    FGt(FAbs(FSub(FMean(SubSeq(signal_data, i + 1, i + 10)),
                  FMean(SubSeq(signal_data, i - 9, i)))), limit)

\* C24: detect_changepoints returns, for a series of length n, exactly the
\* indices i of [10, n - 10) at which the means of the two windows of 10
\* differ by more than penalty x std(series) and that lie more than 10 after
\* every index kept before; the result is strictly increasing with gaps above
\* 10, and empty when n < 20.
C24_ChangepointDetector ==
    detector.pc = "returned" =>
        \A signal_data \in {detector.signal_data} :
        \A cps \in {detector.changepoints} :
        \A n \in {Len(signal_data)} :
           IF n < 20 THEN cps = <<>>
           ELSE \A limit \in {FMul(detector.penalty, Std(signal_data))} :
                \A kept \in {{cps[j] : j \in 1..Len(cps)}} :
                   /\ kept \subseteq 10..(n - 11)
                   /\ \A i \in 10..(n - 11) :
                         i \in kept <=>
                            /\ MeansDiffer(signal_data, i, limit)
                            /\ \A c \in kept : c < i => i - c > 10
                   /\ \A j \in 1..(Len(cps) - 1) : cps[j + 1] - cps[j] > 10

\* a series with one jump gives two changepoints, and an index between them
\* where the means differ was not kept
C24_Witness ==
    /\ detector.pc = "returned"
    /\ Len(detector.changepoints) >= 2
    /\ \E i \in (detector.changepoints[1] + 1)..(detector.changepoints[2] - 1) :
          MeansDiffer(detector.signal_data, i,
                      FMul(detector.penalty, Std(detector.signal_data)))

\* number of times agent ag has mirrored and updated in the sequential run
Updates(ag) == Len(agent[ag].mirror_history)

\* C25: in run_sequential_simulation exactly one agent mirrors and updates on
\* each step, agent a when t is even and agent b when t is odd; the other
\* agent is left as it was, and no agent makes more than ceil(n_steps / 2)
\* updates.
C25_SequentialRegime ==
    /\ [](variant = "sequential" =>
            /\ Updates("a") = (time + 1) \div 2
            /\ Updates("b") = time \div 2
            /\ Len(history.understanding_trajectory) = time
            /\ \A ag \in Agents : Updates(ag) <= (sim.max_steps + 1) \div 2)
    /\ [][(variant = "sequential" /\ time' = time + 1) =>
            \E ag \in Agents :
               /\ ag = (IF time % 2 = 0 THEN "a" ELSE "b")
               /\ Len(agent'[ag].mirror_history) = Updates(ag) + 1
               /\ mirrors'[ag] = agent'[ag].mirror_history[Updates(ag) + 1]
               /\ agent'[Other(ag)] = agent[Other(ag)]
               /\ mirrors'[Other(ag)] = mirrors[Other(ag)]]_vars

\* a run of an odd number of steps has returned: agent a has made one update
\* more than agent b, and both have learned
C25_Witness ==
    /\ variant = "sequential"
    /\ sim.pc = "done"
    /\ sim.max_steps = 7
    /\ Updates("a") = 4
    /\ Updates("b") = 3
    /\ \A ag \in Agents : agent[ag].understanding_of_other > 0

\* the fields of an agent that a step of the sequential run may write
Learned == {"understanding_of_other", "phase", "mirror_history"}

\* C30: run_sequential_simulation never changes an agent's state vector,
\* openness or energy, and does no convergence or energy decay; the only
\* fields that change are understanding_of_other, phase and mirror_history
\* of the agent whose turn it is.
C30_SequentialFrame ==
    /\ [](variant = "sequential" =>
            \A ag \in Agents :
               /\ agent[ag].state_history = <<agent[ag].dimensions>>
               /\ agent[ag].energy = 1000
               /\ agent[ag].openness = IF ag = "a" THEN 700 ELSE 600)
    /\ [][variant = "sequential" =>
            \A ag \in Agents :
            \A f \in DOMAIN agent[ag] :
               agent'[ag][f] # agent[ag][f] =>
                  /\ f \in Learned
                  /\ ag = (IF time % 2 = 0 THEN "a" ELSE "b")
                  /\ time' = time + 1]_vars

\* both agents have learned and changed phase, and their vectors are still
\* the ones they were constructed with
C30_Witness ==
    /\ variant = "sequential"
    /\ time >= 2
    /\ \A ag \in Agents :
          /\ agent[ag].understanding_of_other > 0
          /\ agent[ag].phase > 1
          /\ Len(agent[ag].mirror_history) > 0
          /\ agent[ag].state_history = <<agent[ag].dimensions>>

\* agent ag of the base model as the next step leaves it after "Update
\* understanding", before "Update states through convergence" (its
\* mirror_history aside)
Understood(ag) ==
    LET other == agent[Other(ag)]
        scaled == MirrorScaled(agent[ag], other.dimensions,
                               agent[ag].understanding_of_other,
                               IF ag = "a" THEN rng ELSE Advance(rng, D))
    IN UpdateUnderstanding(agent[ag], Corrcoef(Unit(scaled), other.dimensions),
                           other.complexity)

\* C26: within a step of the base or trust model agent a converges first,
\* toward the vector agent b had before the step, and is renormalized; agent
\* b converges afterwards, toward the vector agent a has just taken.
C26_ConvergenceInTurn ==
    [][(Choosing /\ time' = time + 1) =>
          /\ ConvergedTo("a", agent["b"].dimensions)
          /\ \A target \in {agent'["a"].dimensions} : ConvergedTo("b", target)]_vars

\* the base model is about to take a step in which agent a moves and the
\* order matters: converging in turn, agent b first and agent a first end
\* with different pairs of vectors
C26_Witness ==
    /\ variant = "base"
    /\ Stepped
    /\ time < MaxTime
    /\ sim.pc = "idle"
    /\ \E a1 \in {Understood("a")} :
       \E b1 \in {Understood("b")} :
       \E a2 \in {ConvergeState(a1, b1.dimensions)} :
       \E b2 \in {ConvergeState(b1, a2.dimensions)} :
       \E b_first \in {ConvergeState(b1, a1.dimensions)} :
       \E a_second \in {ConvergeState(a1, b_first.dimensions)} :
          /\ ~HasNaN(a2.dimensions) /\ ~HasNaN(b2.dimensions)
          /\ a2.dimensions # a1.dimensions
          /\ b2.dimensions # b_first.dimensions
          /\ a2.dimensions # a_second.dimensions

\* make_choice of agent ag on the state a step leaves, at the incremented time
ChoiceAfter(ag) ==
    IF variant = "trust" THEN TrustMakeChoice(agent'[ag], time', grace_period)
    ELSE MakeChoice(agent'[ag], time', grace_period)

\* C27: disengagement is not latched.  A step taken after a step that
\* returned continue = False still mirrors, updates, converges and decays
\* energy, appends one entry to every trajectory and increments time, and
\* its continue flag is computed from the state it leaves alone.
C27_NotLatched ==
    [][(Choosing /\ Stepped /\ ~result.continue /\ time' # time) =>
          /\ time' = time + 1
          /\ result'.time = time + 1
          /\ \A k \in DOMAIN history : Len(history'[k]) = Len(history[k]) + 1
          /\ \A ag \in Agents :
                /\ Len(agent'[ag].mirror_history) = Len(agent[ag].mirror_history) + 1
                /\ agent'[ag].energy = EnergyDecay(agent[ag].energy, energy_depletion_rate)
          /\ ConvergedTo("a", agent["b"].dimensions)
          /\ result'.continue <=> (ChoiceAfter("a") /\ ChoiceAfter("b"))]_vars

\* a step of the base model at or after the grace period left agent a's
\* understanding below its threshold, so it returned continue = False; one
\* more step has been taken and recorded, and it returned continue = True
C27_Witness ==
    /\ variant = "base"
    /\ sim.pc = "idle"
    /\ time - 1 >= grace_period
    /\ time - 1 >= 1
    /\ FLt(history.understanding_a_b[time - 1], agent["a"].threshold)
    /\ Len(history.understanding_a_b) = time
    /\ result.time = time
    /\ result.continue

\* ceil((e0 - 0.1) / r) for the agent's initial energy and the system's rate
FloorSteps(ag) ==
    (InitialEnergy[ag] - 100 + energy_depletion_rate - 1) \div energy_depletion_rate

\* C28: with a positive depletion rate r and initial energy e0 >= 0.1 each
\* agent's energy is exactly 0.1 after at most ceil((e0 - 0.1) / r) steps and
\* on every later step.
C28_EnergyReachesFloor ==
    (variant = "energy" /\ energy_depletion_rate > 0) =>
        \A ag \in Agents :
           time >= FloorSteps(ag) => agent[ag].energy = DblOf(100)

\* C28 as amended: energy never rises and never falls below 0.1, and it is
\* exactly 0.1 after at most ceil((e0 - 0.1) / r) + 1 steps and on every
\* later step.
C28_EnergyReachesFloorOneLate ==
    /\ []((variant = "energy" /\ energy_depletion_rate > 0) =>
            \A ag \in Agents :
               /\ ~DLess(agent[ag].energy, DblOf(100))
               /\ time >= FloorSteps(ag) + 1 => agent[ag].energy = DblOf(100))
    /\ [][variant = "energy" =>
            \A ag \in Agents :
               /\ ~DLess(agent[ag].energy, agent'[ag].energy)
               /\ agent[ag].energy = DblOf(100) => agent'[ag].energy = DblOf(100)]_vars

\* ceil((e0 - 0.1) / r) + 1 steps have been taken and both energies are 0.1,
\* and for one agent this is the first step at which the bound applies
C28_Witness ==
    /\ variant = "energy"
    /\ \A ag \in Agents : agent[ag].energy = DblOf(100)
    /\ \E ag \in Agents : time = FloorSteps(ag) + 1

\* C29: an update_trust that leaves fewer than 3 records in the memory (the
\* agent's first two calls) adds +0.02 to trust if this call's mirror quality
\* is above 0.5 and -0.05 otherwise, whatever the phase, the sum being
\* clamped to [0.1, 1.0] as always, and leaves successes and betrayals as
\* they were; so successes + betrayals is 0 through the first two calls and
\* at most the number of calls minus 2 afterwards.
C29_EarlyTrustRule ==
    /\ [][(variant = "trust" /\ time' = time + 1) =>
             \A ag \in Agents :
             \A mem \in {agent'[ag].interaction_memory} :
                /\ Len(mem) < 3 <=> time' <= 2
                /\ Len(mem) < 3 =>
                      \A sum \in {agent[ag].trust
                                    + (IF FGt(mem[Len(mem)].quality, 500)
                                       THEN 20 ELSE 0 - 50)} :
                         /\ agent'[ag].trust = IF sum < 100 THEN 100
                                               ELSE IF sum > 1000 THEN 1000 ELSE sum
                         /\ agent'[ag].successes = agent[ag].successes
                         /\ agent'[ag].betrayals = agent[ag].betrayals]_vars
    /\ [](variant = "trust" =>
            \A ag \in Agents :
               agent[ag].successes + agent[ag].betrayals
                  <= IF time <= 2 THEN 0 ELSE time - 2)

\* an agent has made its second update in phase 3 or 4: its trust has moved
\* by +0.02 or -0.05, not by 1.5 times as much, and it has counted nothing
C29_Witness ==
    /\ variant = "trust"
    /\ time = 2
    /\ \E ag \in Agents :
          /\ Len(agent[ag].interaction_memory) = 2
          /\ LastRecord(ag).phase >= 3
          /\ agent[ag].trust - agent[ag].trust_history[2] \in {20, 0 - 50}
          /\ agent[ag].successes + agent[ag].betrayals = 0
====
